---- MODULE Spec2Model ----
(***************************************************************************)
(* The detection request pipeline of app.py: POST /upload (upload_file),   *)
(* GET /uploads/<filename>, GET /results/<filename>, the helpers           *)
(* allowed_file and encode_image_to_base64, and the statistics computed by *)
(* showResults in the page script.                                         *)
(*                                                                         *)
(* Strings are sequences of one-character strings.  File contents are      *)
(* sequences of bytes.  A confidence is an integer number of hundredths.   *)
(***************************************************************************)
EXTENDS Integers, Sequences, FiniteSets, TLC

(***************************************************************************)
(* Bounds of the model.                                                    *)
(***************************************************************************)
NumRequests == 2
MaxTime == 1
MaxBoxes == 2
MaxLen == 5
MaxCount == 20
MaxShown == 3

Requests == 1..NumRequests

VARIABLES MODEL_LOADED, model, now, uploads, results, req, served, probe

vars == <<MODEL_LOADED, model, now, uploads, results, req, served, probe>>

(***************************************************************************)
(* Strings.                                                                *)
(***************************************************************************)
UpperCase == {"P", "N", "G", "J", "T"}

Lower(c) ==
  CASE c = "P" -> "p"
    [] c = "N" -> "n"
    [] c = "G" -> "g"
    [] c = "J" -> "j"
    [] c = "T" -> "t"
    [] OTHER -> c

LowerStr(s) == [i \in 1..Len(s) |-> Lower(s[i])]

\* str.rfind: the index of the last occurrence of c in s, 0 when there is none
RFind(s, c) ==
  IF \E i \in 1..Len(s) : s[i] = c
  THEN CHOOSE i \in 1..Len(s) : s[i] = c /\ \A j \in (i+1)..Len(s) : s[j] # c
  ELSE 0

\* s.rsplit('.', 1) for a string that contains a '.'
RSplit1(s) ==
  LET i == RFind(s, ".")
  IN  <<SubSeq(s, 1, i - 1), SubSeq(s, i + 1, Len(s))>>

ALLOWED_EXTENSIONS ==
  { <<"p","n","g">>, <<"j","p","g">>, <<"j","p","e","g">>,
    <<"b","m","p">>, <<"t","i","f","f">>, <<"t","i","f">> }

\* allowed_file without the .lower()
allowed_file_NoLower(filename) ==
  /\ \E i \in 1..Len(filename) : filename[i] = "."
  /\ RSplit1(filename)[2] \in ALLOWED_EXTENSIONS

\* allowed_file that only looks for a '.'
allowed_file_AnyExtension(filename) ==
  \E i \in 1..Len(filename) : filename[i] = "."

allowed_file(filename) ==
  /\ \E i \in 1..Len(filename) : filename[i] = "."
  /\ LowerStr(RSplit1(filename)[2]) \in ALLOWED_EXTENSIONS


(***************************************************************************)
(* werkzeug.utils.secure_filename, as called at line 1045.                 *)
(***************************************************************************)
Letters ==
  { "a","b","c","d","e","f","g","h","i","j","k","l","m","n","o","p","q",
    "r","s","t","u","v","w","x","y","z","A","B","C","D","E","F","G","H",
    "I","J","K","L","M","N","O","P","Q","R","S","T","U","V","W","X","Y","Z" }

DigitChars == <<"0","1","2","3","4","5","6","7","8","9">>

\* the complement of _filename_ascii_strip_re = [^A-Za-z0-9_.-]
IsSafeChar(c) ==
  c \in Letters \cup {DigitChars[i] : i \in 1..10} \cup {"_", ".", "-"}

PathSeparators == {"/", "\\"}

Whitespace == {" "}

ReplaceSeparators(s) ==
  [i \in 1..Len(s) |-> IF s[i] \in PathSeparators THEN " " ELSE s[i]]

RECURSIVE SplitJoinFrom(_, _, _, _)
\* "_".join(s.split()), scanning s from index i
SplitJoinFrom(s, i, acc, pending) ==
  IF i > Len(s) THEN acc
  ELSE IF s[i] \in Whitespace
       THEN SplitJoinFrom(s, i + 1, acc, acc # <<>>)
       ELSE SplitJoinFrom(s, i + 1,
                          (IF pending THEN acc \o <<"_">> ELSE acc) \o <<s[i]>>,
                          FALSE)

\* s.strip(chars)
Strip(s, chars) ==
  LET keep == {i \in 1..Len(s) : s[i] \notin chars}
  IN  IF keep = {} THEN <<>>
      ELSE LET first == CHOOSE i \in keep : \A j \in keep : i <= j
               last  == CHOOSE i \in keep : \A j \in keep : j <= i
           IN  SubSeq(s, first, last)

\* no name over the model's alphabet is a Windows device name (CON, NUL, ...),
\* so the "_" prefix secure_filename gives those never applies
secure_filename(filename) ==
  Strip(SelectSeq(SplitJoinFrom(ReplaceSeparators(filename), 1, <<>>, FALSE),
                  IsSafeChar),
        {".", "_"})

(***************************************************************************)
(* datetime.now().strftime('%Y%m%d_%H%M%S_%f'): the clock counts the       *)
(* microseconds of one second; the date and time fields are those of the   *)
(* second the model runs in.                                               *)
(***************************************************************************)
DateTimeFields ==
  <<"2","0","2","5","0","1","0","1","_","1","2","0","0","0","0","_">>

Digit(d) == DigitChars[d + 1]

\* the %f field: six digits, zero padded
MicrosecondField(us) ==
  << Digit((us \div 100000) % 10), Digit((us \div 10000) % 10),
     Digit((us \div 1000) % 10),   Digit((us \div 100) % 10),
     Digit((us \div 10) % 10),     Digit(us % 10) >>

strftime(t) == DateTimeFields \o MicrosecondField(t)

(***************************************************************************)
(* os.path.splitext: the extension starts at the last '.', unless that '.' *)
(* precedes the last separator or only dots precede it in the base name.   *)
(***************************************************************************)
Max(a, b) == IF a >= b THEN a ELSE b

splitext(p) ==
  LET sepIndex == Max(RFind(p, "/"), RFind(p, "\\"))
      dotIndex == RFind(p, ".")
  IN  IF /\ dotIndex > sepIndex
         /\ \E k \in (sepIndex + 1)..(dotIndex - 1) : p[k] # "."
      THEN <<SubSeq(p, 1, dotIndex - 1), SubSeq(p, dotIndex, Len(p))>>
      ELSE <<p, <<>> >>

(***************************************************************************)
(* base64.b64encode(...).decode('utf-8')                                   *)
(***************************************************************************)
B64Alphabet ==
  << "A","B","C","D","E","F","G","H","I","J","K","L","M","N","O","P",
     "Q","R","S","T","U","V","W","X","Y","Z","a","b","c","d","e","f",
     "g","h","i","j","k","l","m","n","o","p","q","r","s","t","u","v",
     "w","x","y","z","0","1","2","3","4","5","6","7","8","9","+","/" >>

B64Char(v) == B64Alphabet[v + 1]

RECURSIVE b64encode(_)
b64encode(bytes) ==
  IF Len(bytes) = 0 THEN <<>>
  ELSE IF Len(bytes) = 1
  THEN << B64Char(bytes[1] \div 4), B64Char((bytes[1] % 4) * 16), "=", "=" >>
  ELSE IF Len(bytes) = 2
  THEN << B64Char(bytes[1] \div 4),
          B64Char((bytes[1] % 4) * 16 + bytes[2] \div 16),
          B64Char((bytes[2] % 16) * 4), "=" >>
  ELSE << B64Char(bytes[1] \div 4),
          B64Char((bytes[1] % 4) * 16 + bytes[2] \div 16),
          B64Char((bytes[2] % 16) * 4 + bytes[3] \div 64),
          B64Char(bytes[3] % 64) >>
       \o b64encode(SubSeq(bytes, 4, Len(bytes)))

\* Python's None, where a string is expected
None == <<"None">>

\* a directory: a function from the names of its files to their contents
NoFiles == [n \in {} |-> <<>>]

\* a write that leaves the written file alone in the directory
Put_Alone(dir, name, content) ==
  [n \in {name} |-> content]

\* open(path, 'wb') and write: the file is created or replaced, the other
\* files stay
Put(dir, name, content) ==
  [n \in DOMAIN dir \cup {name} |-> IF n = name THEN content ELSE dir[n]]

\* readable: whether open() and read() succeed on an existing file
encode_image_to_base64(dir, image_path, readable) ==
  IF image_path \in DOMAIN dir /\ readable
  THEN b64encode(dir[image_path])
  ELSE None

(***************************************************************************)
(* The detection model (external): model(filepath, conf=0.25, iou=0.7)      *)
(* returns a list of at most MaxBoxes boxes, or raises.  A box carries its  *)
(* fields as the one-element tensors conf, cls and xyxy.  Non-maximum      *)
(* suppression (iou=0.7) never keeps the same box twice.                    *)
(***************************************************************************)
Boxes ==
  { [conf |-> <<90>>, cls |-> <<0>>, xyxy |-> << <<1, 1, 5, 5>> >>],
    [conf |-> <<50>>, cls |-> <<1>>, xyxy |-> << <<2, 3, 6, 8>> >>] }

ModelOutputs ==
  UNION { {s \in [1..n -> Boxes] : \A i, j \in 1..n : s[i] = s[j] => i = j} :
            n \in 0..MaxBoxes }

InferenceErrors == {"cannot identify image file", "CUDA out of memory"}

StorageErrors == {"No space left on device", "Permission denied"}

\* results[0].plot(): the image read from the file with the boxes drawn on it
plot(image, boxes) == [pixels |-> image, drawn |-> boxes]

\* the bytes cv2.imwrite stores for a .jpg: the JPEG start marker, the image,
\* and for every box drawn its label (class and confidence)
JpegBytes(img) ==
  LET RECURSIVE Labels(_)
      Labels(bs) == IF bs = <<>> THEN <<>>
                    ELSE <<Head(bs).cls[1], Head(bs).conf[1]>> \o Labels(Tail(bs))
  IN  <<255, 216>> \o img.pixels \o Labels(img.drawn)

\* the detection entries of the boxes with a confidence above one half only
Detections_Filtered(boxes) ==
  LET kept == SelectSeq(boxes, LAMBDA b : b.conf[1] > 50)
  IN  [i \in 1..Len(kept) |->
         [confidence |-> kept[i].conf[1],
          class_id   |-> kept[i].cls[1],
          bbox       |-> kept[i].xyxy[1]]]

\* lines 1076-1085: the detection entries built from results[0].boxes
Detections(boxes) ==
  [i \in 1..Len(boxes) |->
     [confidence |-> boxes[i].conf[1],
      class_id   |-> boxes[i].cls[1],
      bbox       |-> boxes[i].xyxy[1]]]

(***************************************************************************)
(* Requests.  request.files of a POST /upload either has no 'file' field   *)
(* or has one with a filename and a body.  Every request uploads bytes of  *)
(* its own, so that a response or a stored file shows whose bytes it holds.*)
(***************************************************************************)
FileNames ==
  { <<>>,
    <<"x", ".", "g", "i", "f">>,
    <<"x", ".", "p", "n", "g">>,
    <<"x", ".", "j", "p", "g">>,
    <<".", "p", "n", "g">> }

Body(r) == [i \in 1..r |-> 76 + i]

NoFileField == [has_file |-> FALSE, filename |-> <<>>, body |-> <<>>]

RequestFiles(r) ==
  {NoFileField} \cup
  { [has_file |-> TRUE, filename |-> f, body |-> Body(r)] : f \in FileNames }

NoResponse == [status |-> 0]

NoImage == [pixels |-> <<>>, drawn |-> <<>>]

\* The locals of one run of upload_file and, below them, what the run has
\* done so far: the names it wrote in uploads/ (saved) and in results/
\* (written), whether file.save returned (accepted), the calls of the model,
\* the boxes the model returned and the number of responses sent.
IdleRequest ==
  [ pc |-> "idle",
    file |-> NoFileField,
    filename_with_timestamp |-> <<>>,
    result_img_np |-> NoImage,
    result_filename |-> <<>>,
    original_b64 |-> None,
    response |-> NoResponse,
    saved |-> {},
    written |-> {},
    accepted |-> FALSE,
    model_calls |-> 0,
    boxes |-> <<>>,
    sent |-> 0,
    steps |-> <<>>,
    failures |-> <<>>,
    raised |-> "" ]

ErrorResponse(status, error) ==
  [status |-> status, success |-> FALSE, error |-> error]

\* the success response with the boxes counted before the last one is appended
SuccessResponse_CountShort(original_b64, result_b64, detections, filename_with_timestamp) ==
  [ status |-> 200,
    success |-> TRUE,
    original_image |-> original_b64,
    result_image |-> result_b64,
    detections |-> detections,
    detection_count |-> IF detections = <<>> THEN 0 ELSE Len(detections) - 1,
    filename |-> filename_with_timestamp ]

\* lines 1095-1102
SuccessResponse(original_b64, result_b64, detections, filename_with_timestamp) ==
  [ status |-> 200,
    success |-> TRUE,
    original_image |-> original_b64,
    result_image |-> result_b64,
    detections |-> detections,
    detection_count |-> Len(detections),
    filename |-> filename_with_timestamp ]

\* the request runs a step of upload_file
Step(q, step) == [q EXCEPT !.steps = Append(@, step)]

\* a step of the request did not do its work: it raised e, or it returned
\* without a result (e is empty then)
Fail(q, step, e) ==
  [q EXCEPT !.failures = IF step \in {@[i] : i \in 1..Len(@)}
                         THEN @ ELSE Append(@, step),
            !.raised = IF e = "" THEN @ ELSE e]

\* return jsonify(...): the locals are dropped, the response is sent
Return(r, q, resp) ==
  req' = [req EXCEPT ![r] =
            [IdleRequest EXCEPT !.pc = "done",
                                !.file = q.file,
                                !.response = resp,
                                !.saved = q.saved,
                                !.written = q.written,
                                !.accepted = q.accepted,
                                !.model_calls = q.model_calls,
                                !.boxes = q.boxes,
                                !.sent = q.sent + 1,
                                !.steps = q.steps,
                                !.failures = q.failures,
                                !.raised = q.raised]]

\* the startup code of lines 24-46 has run: the directories exist, and the
\* model is loaded or it is not
InitServer ==
  /\ MODEL_LOADED \in BOOLEAN
  /\ model = IF MODEL_LOADED THEN "YOLO" ELSE "None"
  /\ now = 0
  /\ uploads = NoFiles
  /\ results = NoFiles
  /\ req = [r \in Requests |-> IdleRequest]
  /\ served = NoResponse

\* probe is the call of a helper on its own; the service makes none
NoProbe == [op |-> "none"]

Init ==
  /\ InitServer
  /\ probe = NoProbe

\* no GET is being answered: a GET handler runs in one step, and its
\* response leaves before any other step
NoGet == served = NoResponse

\* the clock advances
Tick ==
  /\ NoGet
  /\ now < MaxTime
  /\ now' = now + 1
  /\ UNCHANGED <<MODEL_LOADED, model, uploads, results, req, served, probe>>

\* the checks without the one of MODEL_LOADED
Rejection_NoOfflineCheck(loaded, f) ==
  IF ~f.has_file
  THEN ErrorResponse(400, <<"No file part in the request. Please select an image.">>)
  ELSE IF f.filename = <<>>
  THEN ErrorResponse(400, <<"No selected file. Please choose an image to upload.">>)
  ELSE IF allowed_file(f.filename)
  THEN NoResponse
  ELSE ErrorResponse(400, <<"Invalid file type. Please upload a supported image format.">>)

\* the checks with the last return sending status 500
Rejection_InvalidType500(loaded, f) ==
  IF ~loaded
  THEN ErrorResponse(500, <<"AI model not loaded. System is offline.">>)
  ELSE IF ~f.has_file
  THEN ErrorResponse(400, <<"No file part in the request. Please select an image.">>)
  ELSE IF f.filename = <<>>
  THEN ErrorResponse(400, <<"No selected file. Please choose an image to upload.">>)
  ELSE IF allowed_file(f.filename)
  THEN NoResponse
  ELSE ErrorResponse(500, <<"Invalid file type. Please upload a supported image format.">>)

\* lines 1033-1043 and 1110: the response that rejects the request, or
\* NoResponse when the request goes on; the file object of line 1043 is
\* true whenever its filename is not empty
Rejection(loaded, f) ==
  IF ~loaded
  THEN ErrorResponse(500, <<"AI model not loaded. System is offline.">>)
  ELSE IF ~f.has_file
  THEN ErrorResponse(400, <<"No file part in the request. Please select an image.">>)
  ELSE IF f.filename = <<>>
  THEN ErrorResponse(400, <<"No selected file. Please choose an image to upload.">>)
  ELSE IF allowed_file(f.filename)
  THEN NoResponse
  ELSE ErrorResponse(400, <<"Invalid file type. Please upload a supported image format.">>)

\* lines 1045-1047
StoredName(filename, t) ==
  LET timestamp == strftime(t)
  IN  timestamp \o <<"_">> \o secure_filename(filename)

\* the checks of a request that first loads the model again when the load
\* at startup failed
UploadValidate_Reload(r, f) ==
  /\ NoGet
  /\ req[r].pc = "idle"
  /\ \E loaded \in {MODEL_LOADED, TRUE} :
       /\ MODEL_LOADED' = loaded
       /\ model' = IF loaded THEN "YOLO" ELSE "None"
       /\ LET q == Step([req[r] EXCEPT !.file = f], "validate")
          IN  IF Rejection(loaded, f) # NoResponse
              THEN Return(r, Fail(q, "validate", ""), Rejection(loaded, f))
              ELSE req' = [req EXCEPT ![r] =
                             [q EXCEPT !.pc = "save",
                                       !.filename_with_timestamp =
                                          StoredName(f.filename, now)]]
  /\ UNCHANGED <<now, uploads, results, served, probe>>

\* lines 1033-1048 and 1110: the checks, and the name the upload is stored under
UploadValidate(r, f) ==
  /\ NoGet
  /\ req[r].pc = "idle"
  /\ LET q == Step([req[r] EXCEPT !.file = f], "validate")
     IN  IF Rejection(MODEL_LOADED, f) # NoResponse
         THEN Return(r, Fail(q, "validate", ""), Rejection(MODEL_LOADED, f))
         ELSE req' = [req EXCEPT ![r] =
                        [q EXCEPT !.pc = "save",
                                  !.filename_with_timestamp =
                                     StoredName(f.filename, now)]]
  /\ UNCHANGED <<MODEL_LOADED, model, now, uploads, results, served, probe>>

\* the response of a failed save without the text of the exception
SaveFailed_NoCause(e) == ErrorResponse(500, <<"Failed to save uploaded file: ">>)

\* lines 1052-1054
SaveFailed(e) == ErrorResponse(500, <<"Failed to save uploaded file: ", e>>)

\* lines 1050-1054: file.save(filepath); a failed save leaves no file or a
\* truncated one
UploadSave(r) ==
  /\ NoGet
  /\ req[r].pc = "save"
  /\ LET q == Step(req[r], "save")
         path == q.filename_with_timestamp
     IN  \/ /\ uploads' = Put(uploads, path, q.file.body)
            /\ req' = [req EXCEPT ![r] =
                         [q EXCEPT !.pc = "infer",
                                   !.saved = @ \cup {path},
                                   !.accepted = TRUE]]
         \/ \E e \in StorageErrors :
              \/ /\ uploads' = uploads
                 /\ Return(r, Fail(q, "save", e), SaveFailed(e))
              \/ /\ uploads' = Put(uploads, path, <<>>)
                 /\ Return(r, [Fail(q, "save", e) EXCEPT !.saved = @ \cup {path}],
                           SaveFailed(e))
  /\ UNCHANGED <<MODEL_LOADED, model, now, results, served, probe>>

\* the name of the result image with the extension of the upload kept
ResultName_KeepsExtension(filename_with_timestamp) ==
  <<"d","e","t","e","c","t","e","d","_">> \o filename_with_timestamp

\* lines 1066-1068: the name of the result image of a stored upload
ResultName(filename_with_timestamp) ==
  LET name == splitext(filename_with_timestamp)[1]
  IN  <<"d","e","t","e","c","t","e","d","_">> \o name \o <<".","j","p","g">>

\* the except branch returning without its status, which then is 200
DetectionFailed_NoStatus(e) ==
  [ status |-> 200, success |-> FALSE,
    error |-> <<"Detection process failed: ", e, ". Please try another image.">> ]

\* the except branch answering with the output it has so far
DetectionFailed_Partial(e) ==
  [ status |-> 500, success |-> FALSE,
    error |-> <<"Detection process failed: ", e, ". Please try another image.">>,
    detections |-> <<>>, detection_count |-> 0 ]

\* lines 1104-1108
DetectionFailed(e) ==
  ErrorResponse(500, <<"Detection process failed: ", e, ". Please try another image.">>)

\* the model called with save=True into results/: the annotated image is
\* on disk before the call returns or raises
UploadInfer_SavesResult(r) ==
  /\ NoGet
  /\ req[r].pc = "infer"
  /\ LET q == Step([req[r] EXCEPT !.model_calls = @ + 1,
                                  !.written = @ \cup {ResultName(req[r].filename_with_timestamp)}],
                   "infer")
         path == q.filename_with_timestamp
     IN  /\ results' = Put(results, ResultName(path), <<255, 216>>)
         /\ \/ /\ path \in DOMAIN uploads
               /\ \E out \in ModelOutputs :
                    req' = [req EXCEPT ![r] =
                              [q EXCEPT !.pc = "imwrite",
                                        !.boxes = out,
                                        !.result_img_np = plot(uploads[path], out)]]
            \/ \E e \in InferenceErrors :
                 Return(r, Fail(q, "infer", e), DetectionFailed(e))
  /\ UNCHANGED <<MODEL_LOADED, model, now, uploads, served, probe>>

\* lines 1059-1063: the model reads the file stored at filepath
UploadInfer(r) ==
  /\ NoGet
  /\ req[r].pc = "infer"
  /\ LET q == Step([req[r] EXCEPT !.model_calls = @ + 1], "infer")
         path == q.filename_with_timestamp
     IN  \/ /\ path \in DOMAIN uploads
            /\ \E out \in ModelOutputs :
                 req' = [req EXCEPT ![r] =
                           [q EXCEPT !.pc = "imwrite",
                                     !.boxes = out,
                                     !.result_img_np = plot(uploads[path], out)]]
         \/ \E e \in InferenceErrors :
              Return(r, Fail(q, "infer", e), DetectionFailed(e))
  /\ UNCHANGED <<MODEL_LOADED, model, now, uploads, results, served, probe>>

\* lines 1066-1073: cv2.imwrite writes the file, returns False without
\* writing it, or raises
UploadWriteResult(r) ==
  /\ NoGet
  /\ req[r].pc = "imwrite"
  /\ LET q == Step(req[r], "imwrite")
         result_filename == ResultName(q.filename_with_timestamp)
         next == [q EXCEPT !.pc = "encode",
                           !.result_filename = result_filename,
                           !.result_img_np = NoImage]
     IN  \/ /\ results' = Put(results, result_filename, JpegBytes(q.result_img_np))
            /\ req' = [req EXCEPT ![r] =
                         [next EXCEPT !.written = @ \cup {result_filename}]]
         \/ /\ results' = results
            /\ req' = [req EXCEPT ![r] = Fail(next, "imwrite", "")]
         \/ /\ results' = results
            /\ \E e \in StorageErrors :
                 Return(r, Fail(q, "imwrite", e), DetectionFailed(e))
  /\ UNCHANGED <<MODEL_LOADED, model, now, uploads, served, probe>>

\* line 1088: the stored upload is read back
UploadEncodeOriginal(r) ==
  /\ NoGet
  /\ req[r].pc = "encode"
  /\ \E readable \in BOOLEAN :
       LET q == Step(req[r], "encode")
           original_b64 ==
             encode_image_to_base64(uploads, q.filename_with_timestamp, readable)
           next == [q EXCEPT !.pc = "respond", !.original_b64 = original_b64]
       IN  req' = [req EXCEPT ![r] =
                     IF original_b64 = None
                     THEN Fail(next, "encode", "") ELSE next]
  /\ UNCHANGED <<MODEL_LOADED, model, now, uploads, results, served, probe>>

\* the test of line 1091 looking at the original only
EncodingFailed_OriginalOnly(original_b64, result_b64) ==
  original_b64 = None

\* the test of line 1091 with 'and' in the place of 'or'
EncodingFailed_BothMissing(original_b64, result_b64) ==
  original_b64 = None /\ result_b64 = None

\* lines 1091-1092: whether the response is the encoding failure
EncodingFailed(original_b64, result_b64) ==
  original_b64 = None \/ result_b64 = None

\* lines 1075-1085 and 1089-1102: the detection entries are built, the result
\* image is read back and the response is sent
UploadRespond(r) ==
  /\ NoGet
  /\ req[r].pc = "respond"
  /\ LET q == req[r]
         detections == Detections(q.boxes)
     IN  \E readable \in BOOLEAN :
           LET result_b64 ==
                 encode_image_to_base64(results, q.result_filename, readable)
           IN  IF EncodingFailed(q.original_b64, result_b64)
               THEN Return(r, IF result_b64 = None
                              THEN Fail(q, "encode", "") ELSE q,
                           ErrorResponse(500,
                             <<"Failed to encode images to base64.">>))
               ELSE Return(r, Step(q, "respond"),
                      SuccessResponse(q.original_b64, result_b64, detections,
                                      q.filename_with_timestamp))
  /\ UNCHANGED <<MODEL_LOADED, model, now, uploads, results, served, probe>>

(***************************************************************************)
(* GET /results/<filename> and GET /uploads/<filename>.  A client asks for *)
(* a filename that a response of /upload gave it, or for the result name   *)
(* derived from one.                                                       *)
(***************************************************************************)
send_from_directory(dir, filename) ==
  IF filename \in DOMAIN dir
  THEN [status |-> 200, body |-> dir[filename]]
  ELSE [status |-> 404, body |-> <<>>]

get_result(filename) == send_from_directory(results, filename)

get_upload(filename) == send_from_directory(uploads, filename)

ReturnedNames ==
  {req[r].response.filename : r \in {x \in Requests : req[x].response.status = 200}}

ClientNames == ReturnedNames \cup {ResultName(n) : n \in ReturnedNames}

GetResult(filename) ==
  /\ NoGet
  /\ served' = [route |-> "results", filename |-> filename] @@ get_result(filename)
  /\ UNCHANGED <<MODEL_LOADED, model, now, uploads, results, req, probe>>

GetUpload(filename) ==
  /\ NoGet
  /\ served' = [route |-> "uploads", filename |-> filename] @@ get_upload(filename)
  /\ UNCHANGED <<MODEL_LOADED, model, now, uploads, results, req, probe>>

\* the response of a GET has been sent
Sent ==
  /\ served # NoResponse
  /\ served' = NoResponse
  /\ UNCHANGED <<MODEL_LOADED, model, now, uploads, results, req, probe>>

upload_file(r) ==
  \/ \E f \in RequestFiles(r) : UploadValidate(r, f)
  \/ UploadSave(r)
  \/ UploadInfer(r)
  \/ UploadWriteResult(r)
  \/ UploadEncodeOriginal(r)
  \/ UploadRespond(r)

Next ==
  \/ Tick
  \/ \E r \in Requests : upload_file(r)
  \/ \E filename \in ClientNames : GetResult(filename)
  \/ \E filename \in ClientNames : GetUpload(filename)
  \/ Sent

Spec == Init /\ [][Next]_vars

(***************************************************************************)
(* allowed_file on its own: every filename of at most MaxLen characters    *)
(* over ProbeAlphabet, and the filenames of ProbeNames.                    *)
(***************************************************************************)
ProbeAlphabet == {".", "x", "p", "n", "g", "P", "N", "G"}

ProbeNames ==
  { <<"x", ".", "g", "i", "f">>,
    <<"x", ".", "j", "p", "g">>,
    <<"x", ".", "J", "p", "G">>,
    <<"x", ".", "j", "p", "e", "g">>,
    <<"x", ".", "b", "m", "p">>,
    <<"x", ".", "t", "i", "f", "f">>,
    <<"x", ".", "T", "i", "f">>,
    <<"x", ".", "t", "i", "f", ".", "g", "i", "f">>,
    <<"x", ".", "g", "i", "f", ".", "t", "i", "f">>,
    <<"x", "p", "n", "g">>,
    <<"x", ".", "p", "n", "g", "x">> }

InitAllowed ==
  /\ InitServer
  /\ \E f \in UNION {[1..n -> ProbeAlphabet] : n \in 0..MaxLen} \cup ProbeNames :
       probe = [op |-> "allowed_file", filename |-> f,
                returned |-> FALSE, value |-> FALSE]

AllowedFileCall ==
  /\ probe.op = "allowed_file"
  /\ ~probe.returned
  /\ probe' = [probe EXCEPT !.returned = TRUE,
                            !.value = allowed_file(probe.filename)]
  /\ UNCHANGED <<MODEL_LOADED, model, now, uploads, results, req, served>>

SpecAllowed == InitAllowed /\ [][AllowedFileCall]_vars

(***************************************************************************)
(* showResults of the page script (lines 905-948) on its own: the page as  *)
(* served, then the statistics shown for a response of /upload.            *)
(***************************************************************************)
\* the threat level of a detection count with the first test a strict one
ThreatLevel_Strict(detection_count) ==
  IF detection_count > 5 THEN "HIGH"
  ELSE IF detection_count >= 2 THEN "MEDIUM"
  ELSE "LOW"

\* lines 935-940
ThreatLevel(detection_count) ==
  IF detection_count >= 5 THEN "HIGH"
  ELSE IF detection_count >= 2 THEN "MEDIUM"
  ELSE "LOW"

\* data.detections.reduce((sum, det) => sum + det.confidence, 0)
RECURSIVE reduce(_, _)
reduce(detections, sum) ==
  IF detections = <<>> THEN sum
  ELSE reduce(Tail(detections), sum + Head(detections).confidence)

\* a quotient of two numbers; 0 / 0 is NaN
Quotient(n, d) == [num |-> n, den |-> d]

\* the average with the empty list divided like any other
avgConfidence_NoGuard(detections) ==
  Quotient(reduce(detections, 0), Len(detections))

\* lines 925-927
avgConfidence(detections) ==
  IF Len(detections) > 0
  THEN Quotient(reduce(detections, 0), Len(detections))
  ELSE Quotient(0, 1)

\* line 928: Math.round(avgConfidence * 100) of a confidence in hundredths
\* is the integer nearest to the quotient, a half going up
MathRound(q) ==
  IF q.den = 0 THEN "NaN" ELSE (2 * q.num + q.den) \div (2 * q.den)

\* lines 734, 738, 746 and the display of the results section
InitPage(data) ==
  [ op |-> "showResults", data |-> data, resultsSection |-> "none",
    detectionCount |-> 0, confidence |-> 0, threatLevel |-> "LOW" ]

\* the confidences of the detections shown
Confidences == {25, 50, 90, 100}

ShownDetection(c) ==
  [confidence |-> c, class_id |-> 0, bbox |-> <<1, 1, 5, 5>>]

\* the lists of at most MaxShown detections, and for every count up to
\* MaxCount one list of that many detections
ShownLists ==
  UNION {[1..n -> {ShownDetection(c) : c \in Confidences}] : n \in 0..MaxShown}
  \cup {[i \in 1..n |-> ShownDetection(IF i % 2 = 1 THEN 90 ELSE 50)] :
          n \in 0..MaxCount}

\* line 889: showResults is called with a success response of /upload
InitShow ==
  /\ InitServer
  /\ \E detections \in ShownLists :
       probe = InitPage(SuccessResponse(b64encode(<<76>>),
                                        b64encode(JpegBytes(plot(<<76>>, <<>>))),
                                        detections, StoredName(<<"x",".","p","n","g">>, 0)))

showResults ==
  /\ probe.op = "showResults"
  /\ probe.resultsSection = "none"
  /\ probe' = [avgConfidence |-> avgConfidence(probe.data.detections)] @@
               [probe EXCEPT !.resultsSection = "grid",
                             !.detectionCount = probe.data.detection_count,
                             !.confidence =
                                MathRound(avgConfidence(probe.data.detections)),
                             !.threatLevel = ThreatLevel(probe.data.detection_count)]
  /\ UNCHANGED <<MODEL_LOADED, model, now, uploads, results, req, served>>

SpecShow == InitShow /\ [][showResults]_vars

(***************************************************************************)
(* The claims.                                                             *)
(***************************************************************************)
Done(r) == req[r].pc = "done"

Response(r) == req[r].response

ClaimedExtensions ==
  { <<"p","n","g">>, <<"j","p","g">>, <<"j","p","e","g">>,
    <<"b","m","p">>, <<"t","i","f","f">>, <<"t","i","f">> }

\* the suffix after the last '.' of f, lower-cased, is an allowed extension
HasAllowedExtension(f) ==
  \E i \in 1..Len(f) :
    /\ f[i] = "."
    /\ \A j \in (i + 1)..Len(f) : f[j] # "."
    /\ \E e \in ClaimedExtensions :
         /\ Len(e) = Len(f) - i
         /\ \A k \in 1..Len(e) : Lower(f[i + k]) = e[k]

\* the upload fails validation
BadUpload(f) ==
  \/ ~f.has_file
  \/ f.filename = <<>>
  \/ ~HasAllowedExtension(f.filename)

ValidUpload(f) == ~BadUpload(f)

OfflineResponse ==
  [ status |-> 500, success |-> FALSE,
    error |-> <<"AI model not loaded. System is offline.">> ]

InvalidTypeError ==
  <<"Invalid file type. Please upload a supported image format.">>

\* the %Y%m%d_%H%M%S_%f prefix of a stored name
TimestampOf(stored_name) == SubSeq(stored_name, 1, 22)

\* C1: two requests with the same original filename that took the same
\* microsecond timestamp store their uploads under two distinct names
C1_SameInstantDistinctNames ==
  \A r1, r2 \in Requests :
    \A p1 \in req[r1].saved, p2 \in req[r2].saved :
      ( /\ r1 # r2
        /\ req[r1].file.filename = req[r2].file.filename
        /\ TimestampOf(p1) = TimestampOf(p2) )
      => p1 # p2

\* C2 as stated: a request whose upload fails validation is answered 400 with
\* {success: false, error: <message>}, whether the model is loaded or not
C2_InvalidAlways400 ==
  \A r \in Requests :
    Done(r) /\ BadUpload(req[r].file)
    => /\ Response(r).status = 400
       /\ Response(r).success = FALSE
       /\ Len(Response(r).error) >= 1

\* C2 amended: a request whose upload fails validation is answered 400 with
\* {success: false, error: <message>} when the model is loaded, and with the
\* 500 'AI model not loaded' response when it is not
C2_Invalid400WhenLoaded ==
  \A r \in Requests :
    Done(r) /\ BadUpload(req[r].file)
    => IF MODEL_LOADED
       THEN /\ Response(r).status = 400
            /\ Response(r).success = FALSE
            /\ DOMAIN Response(r) = {"status", "success", "error"}
            /\ Len(Response(r).error) >= 1
       ELSE Response(r) = OfflineResponse

C2_Witness ==
  \E r \in Requests :
    /\ MODEL_LOADED
    /\ Done(r)
    /\ req[r].file.filename = <<"x", ".", "g", "i", "f">>
    /\ Response(r).status = 400

\* C3: when the model is not loaded, a request with a valid image file is
\* answered 500 'AI model not loaded. System is offline.' in its first step,
\* has written nothing to uploads/ or results/ and has not called the model
C3_OfflineShortCircuit ==
  ~MODEL_LOADED =>
    /\ uploads = NoFiles
    /\ results = NoFiles
    /\ \A r \in Requests :
         /\ req[r].pc \in {"idle", "done"}
         /\ Done(r) /\ ValidUpload(req[r].file)
            => /\ Response(r) = OfflineResponse
               /\ req[r].saved = {}
               /\ req[r].written = {}
               /\ req[r].model_calls = 0

C3_Witness ==
  \E r \in Requests :
    /\ ~MODEL_LOADED
    /\ Done(r)
    /\ req[r].file.filename = <<"x", ".", "p", "n", "g">>
    /\ Response(r).status = 500

\* C4: the step that takes up a request whose upload fails validation ends
\* it with a failure response, leaves uploads/ and results/ as they were and
\* calls no model; with the model loaded, a filename with an extension outside
\* the allow-set is answered 'Invalid file type...'
C4_RejectedUploadTouchesNothing ==
  [][ \A r \in Requests :
        ( /\ req[r].pc = "idle"
          /\ req'[r].pc # "idle"
          /\ BadUpload(req'[r].file) )
        => /\ req'[r].pc = "done"
           /\ req'[r].response.success = FALSE
           /\ uploads' = uploads
           /\ results' = results
           /\ req'[r].saved = {}
           /\ req'[r].written = {}
           /\ req'[r].model_calls = 0
           /\ ( /\ MODEL_LOADED
                /\ req'[r].file.has_file
                /\ req'[r].file.filename # <<>> )
              => req'[r].response.error = InvalidTypeError ]_vars

C4_Witness ==
  \E r \in Requests :
    /\ Done(r)
    /\ req[r].file.filename = <<"x", ".", "g", "i", "f">>
    /\ Response(r).error = InvalidTypeError
    /\ uploads # NoFiles

\* C5: allowed_file(filename) is true exactly when the filename has a '.' and
\* the suffix after its last '.', lower-cased, is one of png, jpg, jpeg, bmp,
\* tiff, tif; allowed('x.PNG'), not allowed('x'), not allowed('x.gif')
C5_AllowedFile ==
  probe.op = "allowed_file" /\ probe.returned
  => /\ probe.value <=> HasAllowedExtension(probe.filename)
     /\ probe.filename = <<"x", ".", "P", "N", "G">> => probe.value
     /\ probe.filename = <<"x">> => ~probe.value
     /\ probe.filename = <<"x", ".", "g", "i", "f">> => ~probe.value

C5_Witness ==
  /\ probe.op = "allowed_file"
  /\ probe.returned
  /\ probe.filename = <<"x", ".", "P", "N", "G">>
  /\ probe.value

\* the result name the naming convention gives a stored name: detected_,
\* the stored name up to its last '.', and .jpg
ClaimedResultName(stored_name) ==
  LET dots == {i \in 1..Len(stored_name) : stored_name[i] = "."}
      stem == IF dots = {} THEN stored_name
              ELSE SubSeq(stored_name, 1,
                          (CHOOSE i \in dots : \A j \in dots : j <= i) - 1)
  IN  <<"d","e","t","e","c","t","e","d","_">> \o stem \o <<".","j","p","g">>

\* C6 as stated: the filename of a success response, given to GET /uploads/
\* and to GET /results/, is served by both
C6_ReturnedNameServesBoth ==
  \A r \in Requests :
    Response(r).status = 200
    => /\ get_upload(Response(r).filename).status = 200
       /\ get_result(Response(r).filename).status = 200

\* C6 amended: the filename of a success response, given to GET /uploads/,
\* is served the file stored under it in uploads/; given to GET /results/ it
\* is not found: the result image is served under detected_<stem>.jpg
C6_ReturnedNameServesUpload ==
  /\ \A r \in Requests :
       Response(r).status = 200
       => /\ get_upload(Response(r).filename).status = 200
          /\ get_result(Response(r).filename).status = 404
          /\ get_result(ClaimedResultName(Response(r).filename)).status = 200
  /\ served # NoResponse /\ served.filename \in ReturnedNames
     => IF served.route = "uploads"
        THEN served.status = 200 /\ served.body = uploads[served.filename]
        ELSE served.status = 404
  /\ \A n \in ReturnedNames :
       served # NoResponse /\ served.filename = ClaimedResultName(n)
                           /\ served.route = "results"
       => served.status = 200 /\ served.body = results[served.filename]

C6_Witness ==
  /\ served # NoResponse
  /\ served.route = "results"
  /\ served.status = 200
  /\ \E r \in Requests :
       /\ Response(r).status = 200
       /\ served.filename = ClaimedResultName(Response(r).filename)

\* C7: once file.save has stored a request's upload, GET /uploads/ of its
\* stored name returns the bytes that request uploaded
C7_RoundTrip ==
  \A r \in Requests :
    req[r].accepted
    => \A p \in req[r].saved :
         get_upload(p) = [status |-> 200, body |-> req[r].file.body]

\* a response of /upload as the interface allows it
WellFormed(resp) ==
  \/ resp.status = 200 /\ resp.success = TRUE
  \/ /\ resp.status \in {400, 500}
     /\ resp.success = FALSE
     /\ DOMAIN resp = {"status", "success", "error"}
     /\ Len(resp.error) >= 1

\* C8: a request has sent one response when it has ended and none before,
\* the response is a 200 success or a 400/500 {success: false, error}, and a
\* request that has not ended always has a next step
C8_ExactlyOneResponse ==
  \A r \in Requests :
    /\ req[r].sent = (IF Done(r) THEN 1 ELSE 0)
    /\ Done(r) <=> Response(r) # NoResponse
    /\ Done(r) => WellFormed(Response(r))
    /\ NoGet /\ req[r].pc \notin {"idle", "done"} => ENABLED upload_file(r)

C8_Witness ==
  \E r \in Requests :
    /\ Done(r)
    /\ req[r].model_calls = 1
    /\ Response(r).status = 500
    /\ Response(r).error[1] = "Detection process failed: "

\* C9: a status-200 response has success = true, carries original_image,
\* result_image, detections, detection_count and filename, and its
\* detection_count is the length of its detections list
C9_SuccessShape ==
  \A r \in Requests :
    Response(r).status = 200
    => /\ Response(r).success = TRUE
       /\ { "original_image", "result_image", "detections",
            "detection_count", "filename" } \subseteq DOMAIN Response(r)
       /\ Response(r).detection_count = Len(Response(r).detections)

C9_Witness ==
  \E r \in Requests :
    /\ Response(r).status = 200
    /\ Len(Response(r).detections) = 2
    /\ Response(r).detection_count = 2

\* the threat level the classification rule gives a detection count
ClaimedThreat(n) ==
  CASE n < 2 -> "LOW"
    [] 2 <= n /\ n < 5 -> "MEDIUM"
    [] n >= 5 -> "HIGH"

\* C10: the threat level shown for a detection count n is LOW when n < 2,
\* MEDIUM when 2 <= n < 5 and HIGH when n >= 5; 1 -> LOW, 2 -> MEDIUM,
\* 4 -> MEDIUM, 5 -> HIGH
C10_ThreatLevel ==
  probe.op = "showResults" /\ probe.resultsSection = "grid"
  => LET n == probe.data.detection_count
     IN  /\ probe.threatLevel = ClaimedThreat(n)
         /\ n = 1 => probe.threatLevel = "LOW"
         /\ n = 2 => probe.threatLevel = "MEDIUM"
         /\ n = 4 => probe.threatLevel = "MEDIUM"
         /\ n = 5 => probe.threatLevel = "HIGH"

C10_Witness ==
  /\ probe.op = "showResults"
  /\ probe.resultsSection = "grid"
  /\ probe.data.detection_count = 5
  /\ probe.threatLevel = "HIGH"

\* the confidences of the detections of a response
ConfidencesOf(data) ==
  [i \in 1..Len(data.detections) |-> data.detections[i].confidence]

\* the sum of a list of numbers
RECURSIVE SumOf(_)
SumOf(xs) ==
  IF xs = <<>> THEN 0 ELSE xs[Len(xs)] + SumOf(SubSeq(xs, 1, Len(xs) - 1))

\* C11: the average confidence computed by showResults is 0 when the list of
\* detections is empty, and otherwise the arithmetic mean of the
\* confidences: [0.9, 0.5] gives 0.7
C11_AverageConfidence ==
  (probe.op = "showResults" /\ probe.resultsSection = "grid") =>
    LET xs == ConfidencesOf(probe.data)
        avg == probe.avgConfidence
    IN  /\ avg.den # 0
        /\ xs = <<>> => avg.num = 0
        /\ xs # <<>> => avg.num * Len(xs) = SumOf(xs) * avg.den
        /\ xs = <<90, 50>> => avg.num = 70 * avg.den /\ probe.confidence = 70

C11_Witness ==
  /\ probe.op = "showResults"
  /\ probe.resultsSection = "grid"
  /\ probe.data.detections = <<>>
  /\ probe.avgConfidence.num = 0
  /\ probe.confidence = 0

\* the elements of a sequence
Range(seq) == {seq[i] : i \in 1..Len(seq)}

\* the step of request r that did not do its work
FailedAt(r, step) == step \in Range(req[r].failures)

\* how many times request r ran the step
TimesRun(r, step) == Cardinality({i \in 1..Len(req[r].steps) : req[r].steps[i] = step})

\* the messages of the exceptions the storage and the model raise
ClaimedCauses ==
  {"No space left on device", "Permission denied",
   "cannot identify image file", "CUDA out of memory"}

\* C12: when writing the upload to uploads/ fails, the request is answered
\* with status 500 and an error that includes the cause; the write ran
\* once, the model was never invoked for the request and the request wrote
\* nothing to results/
C12_SaveFailure ==
  \A r \in Requests :
    FailedAt(r, "save") =>
      /\ Done(r)
      /\ Response(r).status = 500
      /\ Response(r).success = FALSE
      /\ req[r].raised \in ClaimedCauses
      /\ req[r].raised \in Range(Response(r).error)
      /\ TimesRun(r, "save") = 1
      /\ TimesRun(r, "infer") = 0
      /\ req[r].model_calls = 0
      /\ req[r].written = {}

C12_Witness ==
  \E r \in Requests :
    /\ FailedAt(r, "save")
    /\ Done(r)
    /\ Response(r).status = 500
    /\ req[r].raised = "No space left on device"
    /\ req[r].saved # {}

\* C13: when inference raises for a stored upload, the answer is status 500
\* with success false and an error that contains the message of the
\* exception, and it has no other field: no image, detections,
\* detection_count or filename
C13_InferenceFailure ==
  \A r \in Requests :
    FailedAt(r, "infer") =>
      /\ Done(r)
      /\ req[r].accepted
      /\ Response(r).status = 500
      /\ Response(r).success = FALSE
      /\ req[r].raised \in ClaimedCauses
      /\ req[r].raised \in Range(Response(r).error)
      /\ DOMAIN Response(r) = {"status", "success", "error"}

C13_Witness ==
  \E r \in Requests :
    /\ FailedAt(r, "infer")
    /\ Done(r)
    /\ MODEL_LOADED
    /\ req[r].saved # {}
    /\ Response(r).status = 500
    /\ req[r].raised = "CUDA out of memory"

\* the image of the bytes uploaded, encoded again with nothing drawn on it
ReEncoded(body) == <<255, 216>> \o body

\* C14: a valid image for which the model returns zero detections gets a
\* success response with detection_count 0, for which the page shows the
\* average confidence 0 and the threat level LOW, and whose result_image is
\* the original image or a re-encoding of it
C14_NoDetections ==
  \A r \in Requests :
    (Done(r) /\ Response(r).status = 200 /\ req[r].boxes = <<>>) =>
      /\ Response(r).success = TRUE
      /\ Response(r).detections = <<>>
      /\ Response(r).detection_count = 0
      /\ avgConfidence(Response(r).detections) = Quotient(0, 1)
      /\ ThreatLevel(Response(r).detection_count) = "LOW"
      /\ Response(r).result_image
           \in {b64encode(req[r].file.body), b64encode(ReEncoded(req[r].file.body))}

\* C15: no step of a request deletes a file: the set of the file names in
\* uploads/ and the one in results/ never lose a name
C15_NothingDeleted ==
  [][ /\ DOMAIN uploads \subseteq DOMAIN uploads'
      /\ DOMAIN results \subseteq DOMAIN results' ]_vars

C15_Witness ==
  /\ Cardinality(DOMAIN uploads) = 2
  /\ Cardinality(DOMAIN results) = 2
  /\ \A r \in Requests :
       /\ Done(r)
       /\ req[r].saved \subseteq DOMAIN uploads
       /\ req[r].written \subseteq DOMAIN results
  /\ \E r \in Requests : Response(r).status = 500 /\ req[r].written # {}

\* the steps of a request in the order claimed: validate, store original,
\* infer, store result, assemble, respond
ClaimedOrder == <<"validate", "save", "infer", "imwrite", "encode", "respond">>

\* the steps the request ran are the first ones of the claimed order, each
\* one once
InClaimedOrder(steps) ==
  /\ Len(steps) <= Len(ClaimedOrder)
  /\ steps = SubSeq(ClaimedOrder, 1, Len(steps))

\* C16: a request runs its steps in the order validate, store original,
\* infer, store result, assemble, respond, no step twice; the first step
\* that fails ends the request with a failure response, and no later step
\* runs for it
C16_StepsInOrder ==
  \A r \in Requests :
    /\ InClaimedOrder(req[r].steps)
    /\ (Done(r) /\ req[r].failures # <<>>) =>
         /\ Response(r).status # 200
         /\ Response(r).success = FALSE
         /\ req[r].steps[Len(req[r].steps)] = req[r].failures[1]

\* the images of a request: its upload, and its upload with the boxes of
\* its inference drawn
OwnOriginal(r) == req[r].file.body

OwnResult(r) == JpegBytes(plot(req[r].file.body, req[r].boxes))

\* C17: under any interleaving, a 200 response carries in original_image
\* the encoding of the bytes this request uploaded and in result_image the
\* annotated image of this request's inference, never another request's
C17_OwnImages ==
  \A r \in Requests :
    (Done(r) /\ Response(r).status = 200) =>
      /\ Response(r).original_image = b64encode(OwnOriginal(r))
      /\ Response(r).result_image = b64encode(OwnResult(r))

\* the request was answered with a failure
Failure(r) == Done(r) /\ Response(r).success = FALSE

\* C18 as claimed: a request answered with a failure has left no result
\* file of its own in results/
C18_FailureLeavesNoResult ==
  \A r \in Requests :
    Failure(r) => req[r].written \cap DOMAIN results = {}

\* C18: a request answered with a failure before it reached the writing of
\* its result image has left no result file of its own in results/; the
\* result file a request wrote stays in results/ whatever its answer
C18_FailureBeforeWriting ==
  \A r \in Requests :
    /\ (Failure(r) /\ TimesRun(r, "imwrite") = 0) => req[r].written = {}
    /\ req[r].written \subseteq DOMAIN results

C18_Witness ==
  \E r, s \in Requests :
    /\ Failure(r)
    /\ FailedAt(r, "infer")
    /\ req[r].saved # {}
    /\ req[r].written = {}
    /\ Failure(s)
    /\ TimesRun(s, "imwrite") = 1
    /\ req[s].written # {}
    /\ Response(s).status = 500

\* C19: the model handle and MODEL_LOADED are set at startup and no step
\* changes them; a request of a service whose load failed does not load
\* or call the model
C19_ModelStateFixed ==
  [][ /\ MODEL_LOADED' = MODEL_LOADED
      /\ model' = model
      /\ MODEL_LOADED' <=> model' # "None"
      /\ ~MODEL_LOADED' => \A r \in Requests : req'[r].model_calls = 0 ]_vars

C19_Witness ==
  /\ ~MODEL_LOADED
  /\ model = "None"
  /\ \A r \in Requests :
       /\ Done(r)
       /\ req[r].file.has_file
       /\ allowed_file(req[r].file.filename)
       /\ Response(r).status = 500
       /\ req[r].model_calls = 0

\* the answer to a request whose images could not be read back
EncodingFailure ==
  [ status |-> 500, success |-> FALSE,
    error |-> <<"Failed to encode images to base64.">> ]

\* C20: when the stored original or the stored result cannot be read back,
\* the answer is status 500 with 'Failed to encode images to base64.'; a
\* success response has both images
C20_UnreadableImage ==
  \A r \in Requests :
    Done(r) =>
      /\ FailedAt(r, "encode") => Response(r) = EncodingFailure
      /\ Response(r).status = 200 =>
           /\ ~FailedAt(r, "encode")
           /\ {"original_image", "result_image"} \subseteq DOMAIN Response(r)
           /\ Response(r).original_image # None
           /\ Response(r).result_image # None

C20_Witness ==
  \E r \in Requests :
    /\ Done(r)
    /\ req[r].failures = <<"imwrite", "encode">>
    /\ req[r].written = {}
    /\ req[r].saved \subseteq DOMAIN uploads
    /\ Response(r) = EncodingFailure

\* C21: the detections of a success response are the boxes the model
\* returned for the request, one entry per box in the same order, each with
\* the class, the confidence and the corners of its box unchanged
C21_DetectionsVerbatim ==
  \A r \in Requests :
    (Done(r) /\ Response(r).status = 200) =>
      /\ Len(Response(r).detections) = Len(req[r].boxes)
      /\ \A i \in 1..Len(req[r].boxes) :
           /\ Response(r).detections[i].class_id = req[r].boxes[i].cls[1]
           /\ Response(r).detections[i].confidence = req[r].boxes[i].conf[1]
           /\ Response(r).detections[i].bbox = req[r].boxes[i].xyxy[1]
           /\ DOMAIN Response(r).detections[i] = {"class_id", "confidence", "bbox"}

C21_Witness ==
  \E r \in Requests :
    /\ Done(r)
    /\ Response(r).status = 200
    /\ Len(req[r].boxes) = 2
    /\ req[r].boxes[1].conf[1] = 50
    /\ Response(r).detections[1].confidence = 50
    /\ Response(r).detections[2].confidence = 90

\* the last n characters of a name
Suffix(name, n) == SubSeq(name, Len(name) - n + 1, Len(name))

\* C22: a request whose cv2.imwrite wrote the annotated image wrote it in
\* results/ under detected_<stem>.jpg, <stem> being its stored upload name
\* without the final extension; the name ends in .jpg whatever the
\* extension of the upload
C22_ResultName ==
  \A r \in Requests :
    /\ \A n \in req[r].written :
         /\ n \in {ClaimedResultName(p) : p \in req[r].saved}
         /\ Suffix(n, 4) = <<".", "j", "p", "g">>
         /\ n \in DOMAIN results
         /\ SubSeq(results[n], 1, 2) = <<255, 216>>
    /\ (TimesRun(r, "imwrite") = 1 /\ ~FailedAt(r, "imwrite")) =>
         Cardinality(req[r].written) = 1

C22_Witness ==
  \E r \in Requests :
    /\ req[r].file.filename = <<"x", ".", "p", "n", "g">>
    /\ TimesRun(r, "imwrite") = 1
    /\ req[r].written =
         {<<"d","e","t","e","c","t","e","d","_">> \o strftime(0)
            \o <<"_", "x", ".", "j", "p", "g">>}
    /\ req[r].written \subseteq DOMAIN results

\* C23: two uploads stored under distinct names in uploads/ get distinct
\* result names, so the annotated image of one request is never replaced
\* by the result of a request for another stored upload
C23_DistinctResultNames ==
  \A r1, r2 \in Requests :
    \A p1 \in req[r1].saved, p2 \in req[r2].saved :
      p1 # p2 =>
        /\ ResultName(p1) # ResultName(p2)
        /\ req[r1].written \cap req[r2].written = {}

\* what follows the last '.' of a filename that has one
LastExtension(f) ==
  LET dots == {i \in 1..Len(f) : f[i] = "."}
  IN  SubSeq(f, (CHOOSE i \in dots : \A j \in dots : j <= i) + 1, Len(f))

\* C24: the stored name of an upload that passed validation is a
\* timestamp, '_' and the sanitized filename, and it ends with '.' and the
\* extension that made the original filename pass validation
C24_ExtensionKept ==
  \A r \in Requests :
    \A p \in req[r].saved :
      LET ext == LastExtension(req[r].file.filename)
      IN  /\ Len(p) > 23
          /\ \E t \in 0..MaxTime : SubSeq(p, 1, 22) = strftime(t)
          /\ p[23] = "_"
          /\ Len(p) > 23 + Len(ext)
          /\ Suffix(p, Len(ext) + 1) = <<".">> \o ext

====
